---- MODULE Spec2Model ----
(***************************************************************************)
(* A model of backend/src/api/yproxy.rs: the typed view (YDocProxy,        *)
(* YTaskProxy) over the "graph" map of a yrs document.                     *)
(*                                                                         *)
(* Strings are sequences of characters, Option<T> is a sequence of length  *)
(* at most one, Result<T> is a record [ok, val].  A yrs value (Out / Any)  *)
(* is a record [tag, v].  The integer widths are scaled down (I64Bits,     *)
(* U64Bits, F64Precision stand for 64, 64 and 53) so that the boundary     *)
(* cases of the conversions are inside the explored range.                 *)
(***************************************************************************)
EXTENDS Integers, Sequences, FiniteSets, TLC

VARIABLES
    graph,      \* the document's "graph" map: task id -> yrs value
    last,       \* the last operation run through the proxy, with its result
    foreign,    \* number of writes made to the document behind the proxy
    build       \* how the build converts i64 and treats integer overflow

vars == <<graph, last, foreign, build>>

-----------------------------------------------------------------------------
(* Bounds of the model *)

F64Precision == 3
I64Bits == 6
U64Bits == 3
MaxForeign == 1
MaxChildren == 3

-----------------------------------------------------------------------------
(* Option, Result *)

None == <<>>
Some(x) == <<x>>
IsSome(o) == Len(o) = 1
Unwrap(o) == o[1]

Ok(x) == [ok |-> TRUE, val |-> x]
Err(e) == [ok |-> FALSE, val |-> e]

RECURSIVE Pow2(_)
Pow2(n) == IF n = 0 THEN 1 ELSE 2 * Pow2(n - 1)

Abs(x) == IF x < 0 THEN -x ELSE x

-----------------------------------------------------------------------------
(* yrs values: Out::Any(Any::..), Out::YText, Out::YArray, Out::YMap *)

Val(tag, v) == [tag |-> tag, v |-> v]
Missing == Val("Missing", <<>>)
ANull == Val("Null", <<>>)
AUndefined == Val("Undefined", <<>>)
AString(s) == Val("String", s)
ANumber(f) == Val("Number", f)
ABigInt(i) == Val("BigInt", i)
ABool(b) == Val("Bool", b)
YText(chars) == Val("YText", chars)
YArray(items) == Val("YArray", items)
YMap(fields) == Val("YMap", fields)

Fields == {"id", "num", "name", "desc", "children", "assignee", "reporter",
           "status", "statusTime", "url", "kind", "estimate", "deadline",
           "archived"}

EmptyMap == [f \in Fields |-> Missing]

\* Map::get: None for an absent key
MapGet(m, key) == IF m[key].tag = "Missing" THEN None ELSE Some(m[key])

\* Map::insert
MapInsert(m, key, v) == [m EXCEPT ![key] = v]

\* Map::try_update: writes unless the entry already holds an equal value
TryUpdate(m, key, v) ==
    IF m[key].tag = v.tag /\ m[key].v = v.v THEN m ELSE MapInsert(m, key, v)

-----------------------------------------------------------------------------
(* Integer conversions between i64 and the document's f64 number *)

I64Max == Pow2(I64Bits - 1) - 1
I64Min == -Pow2(I64Bits - 1)
U64Max == Pow2(U64Bits) - 1
F64MaxSafeInteger == Pow2(F64Precision) - 1

RECURSIVE Log2Floor(_)
Log2Floor(n) == IF n < 2 THEN 0 ELSE 1 + Log2Floor(n \div 2)

\* `v as f64`: the nearest representable value, ties to even
I64AsF64(v) ==
    LET a == Abs(v)
        e == Log2Floor(a)
        ulp == IF e < F64Precision THEN 1 ELSE Pow2(e - F64Precision + 1)
        q == a \div ulp
        r == a % ulp
        up == (2 * r > ulp) \/ (2 * r = ulp /\ q % 2 = 1)
        m == (IF up THEN q + 1 ELSE q) * ulp
    IN  IF v < 0 THEN -m ELSE m

\* `f as i64`: saturating
F64AsI64(f) == IF f > I64Max THEN I64Max ELSE IF f < I64Min THEN I64Min ELSE f

\* Into<Any> for i64, as the yrs build in use defines it
AnyFromI64(v) ==
    IF build.bigint /\ Abs(v) > F64MaxSafeInteger
    THEN ABigInt(v)
    ELSE ANumber(I64AsF64(v))

\* Into<Any> for Option<T>
AnyFromOptI64(o) == IF IsSome(o) THEN AnyFromI64(Unwrap(o)) ELSE ANull
AnyFromOptStr(o) == IF IsSome(o) THEN AString(Unwrap(o)) ELSE ANull
AnyFromOptBool(o) == IF IsSome(o) THEN ABool(Unwrap(o)) ELSE ANull

-----------------------------------------------------------------------------
(* String constants of the program *)

Rollup == <<"R", "o", "l", "l", "u", "p">>
MANAGED_KINDS == {<<"g", "i", "t", "h", "u", "b">>,
                  <<"g", "i", "t", "h", "u", "b", "_", "p", "r">>}

-----------------------------------------------------------------------------
(* YTaskProxy: field readers *)

get_optional_number(y_task, field) ==
    LET got == MapGet(y_task, field) IN
    IF ~IsSome(got) THEN Ok(None)
    ELSE LET result == Unwrap(got) IN
         CASE result.tag = "Number" -> Ok(Some(F64AsI64(result.v)))
           [] result.tag \in {"Null", "Undefined"} -> Ok(None)
           [] OTHER -> Err("invalid field")

get_optional_string(y_task, field) ==
    LET got == MapGet(y_task, field) IN
    IF ~IsSome(got) THEN Ok(None)
    ELSE LET result == Unwrap(got) IN
         CASE result.tag = "String" -> Ok(Some(result.v))
           [] result.tag \in {"Null", "Undefined"} -> Ok(None)
           [] OTHER -> Err("invalid field")

get_string(y_task, field) ==
    LET r == get_optional_string(y_task, field) IN
    IF ~r.ok THEN r
    ELSE IF ~IsSome(r.val) THEN Err("field is missing")
    ELSE Ok(Unwrap(r.val))

get_optional_bool(y_task, field) ==
    LET got == MapGet(y_task, field) IN
    IF ~IsSome(got) THEN Ok(None)
    ELSE LET result == Unwrap(got) IN
         CASE result.tag = "Bool" -> Ok(Some(result.v))
           [] result.tag \in {"Null", "Undefined"} -> Ok(None)
           [] OTHER -> Err("invalid field")

get_id(y_task) == get_string(y_task, "id")
get_num(y_task) == get_string(y_task, "num")
get_name(y_task) == get_string(y_task, "name")

get_desc(y_task) ==
    LET got == MapGet(y_task, "desc") IN
    IF ~IsSome(got) THEN Ok(None)
    ELSE LET result == Unwrap(got) IN
         CASE result.tag = "YText" -> Ok(Some(result.v))
           [] result.tag \in {"Null", "Undefined"} -> Ok(None)
           [] OTHER -> Err("invalid type for desc field")

get_children(y_task) ==
    LET got == MapGet(y_task, "children") IN
    IF ~IsSome(got) THEN Ok(<<>>)
    ELSE LET y_children == Unwrap(got) IN
         IF y_children.tag # "YArray" THEN Err("invalid field: children")
         ELSE IF \E i \in 1..Len(y_children.v) : y_children.v[i].tag # "String"
              THEN Err("invalid child")
              ELSE Ok([i \in 1..Len(y_children.v) |-> y_children.v[i].v])

get_assignee(y_task) == get_optional_string(y_task, "assignee")
get_reporter(y_task) == get_optional_string(y_task, "reporter")
get_status(y_task) == get_optional_string(y_task, "status")
get_status_time(y_task) == get_optional_number(y_task, "statusTime")
get_url(y_task) == get_optional_string(y_task, "url")
get_kind(y_task) == get_optional_string(y_task, "kind")
get_estimate(y_task) == get_optional_number(y_task, "estimate")
get_deadline(y_task) == get_optional_number(y_task, "deadline")
get_archived(y_task) == get_optional_bool(y_task, "archived")

\* The struct literal evaluates its fields in order; `?` returns the first error.
to_task(y_task) ==
    LET rs == << get_id(y_task), get_num(y_task), get_name(y_task),
                 get_desc(y_task), get_children(y_task), get_assignee(y_task),
                 get_reporter(y_task), get_status(y_task),
                 get_status_time(y_task), get_url(y_task), get_kind(y_task),
                 get_estimate(y_task), get_deadline(y_task),
                 get_archived(y_task) >>
        bad == {i \in 1..Len(rs) : ~rs[i].ok}
    IN  IF bad # {}
        THEN rs[CHOOSE i \in bad : \A j \in bad : i <= j]
        ELSE Ok([id |-> rs[1].val, num |-> rs[2].val, name |-> rs[3].val,
                 desc |-> rs[4].val, children |-> rs[5].val,
                 assignee |-> rs[6].val, reporter |-> rs[7].val,
                 status |-> rs[8].val, status_time |-> rs[9].val,
                 url |-> rs[10].val, kind |-> rs[11].val,
                 estimate |-> rs[12].val, deadline |-> rs[13].val,
                 archived |-> rs[14].val])

-----------------------------------------------------------------------------
(* similar::capture_diff_slices(Algorithm::Myers, old, new)                *)
(*                                                                         *)
(* The diff is a shortest edit script: it keeps a longest common           *)
(* subsequence of old and new.  Which of several longest common            *)
(* subsequences Myers' search keeps is left open here: every shortest      *)
(* script is a possible result.  The Replace hook of capture_diff folds    *)
(* the deletions and insertions between two kept runs into one op, so a    *)
(* script alternates Equal with one Delete, Insert or Replace.             *)
(* Indices are 0-based, as in the DiffOp fields.                           *)

RECURSIVE LcsLen(_, _, _, _)
LcsLen(old, new, i, j) ==
    IF i >= Len(old) \/ j >= Len(new) THEN 0
    ELSE IF old[i + 1] = new[j + 1] THEN 1 + LcsLen(old, new, i + 1, j + 1)
    ELSE LET a == LcsLen(old, new, i + 1, j)
             b == LcsLen(old, new, i, j + 1)
         IN  IF a >= b THEN a ELSE b

\* Element-wise shortest scripts over old[i+1..] and new[j+1..]: sequences of
\* "E" (keep), "D" (delete), "I" (insert), deletions first within a gap.
RECURSIVE ElementScripts(_, _, _, _, _)
ElementScripts(old, new, i, j, afterInsert) ==
    IF i = Len(old) /\ j = Len(new) THEN {<<>>}
    ELSE LET here == LcsLen(old, new, i, j)
             keep == IF /\ i < Len(old) /\ j < Len(new)
                        /\ old[i + 1] = new[j + 1]
                        /\ here = 1 + LcsLen(old, new, i + 1, j + 1)
                     THEN {<<"E">> \o s :
                             s \in ElementScripts(old, new, i + 1, j + 1, FALSE)}
                     ELSE {}
             del  == IF /\ i < Len(old) /\ ~afterInsert
                        /\ here = LcsLen(old, new, i + 1, j)
                     THEN {<<"D">> \o s :
                             s \in ElementScripts(old, new, i + 1, j, FALSE)}
                     ELSE {}
             ins  == IF /\ j < Len(new)
                        /\ here = LcsLen(old, new, i, j + 1)
                     THEN {<<"I">> \o s :
                             s \in ElementScripts(old, new, i, j + 1, TRUE)}
                     ELSE {}
         IN  keep \cup del \cup ins

DiffOp(tag, old_index, old_len, new_index, new_len) ==
    [tag |-> tag, old_index |-> old_index, old_len |-> old_len,
     new_index |-> new_index, new_len |-> new_len]

\* Number of leading elements of s from position k on that satisfy the tag set
RECURSIVE RunLen(_, _, _)
RunLen(s, k, tags) ==
    IF k > Len(s) \/ s[k] \notin tags THEN 0 ELSE 1 + RunLen(s, k + 1, tags)

CountTag(s, from, n, tag) ==
    Cardinality({k \in from..(from + n - 1) : s[k] = tag})

\* Fold an element-wise script into spans (the Compact and Replace hooks)
RECURSIVE FoldSpans(_, _, _, _)
FoldSpans(s, k, oi, ni) ==
    IF k > Len(s) THEN <<>>
    ELSE IF s[k] = "E"
    THEN LET n == RunLen(s, k, {"E"}) IN
         <<DiffOp("Equal", oi, n, ni, n)>>
            \o FoldSpans(s, k + n, oi + n, ni + n)
    ELSE LET n == RunLen(s, k, {"D", "I"})
             d == CountTag(s, k, n, "D")
             a == CountTag(s, k, n, "I")
             op == IF d > 0 /\ a > 0 THEN DiffOp("Replace", oi, d, ni, a)
                   ELSE IF d > 0 THEN DiffOp("Delete", oi, d, ni, 0)
                   ELSE DiffOp("Insert", oi, 0, ni, a)
         IN  <<op>> \o FoldSpans(s, k + n, oi + d, ni + a)

\* The scripts the diff may return
capture_diff_slices(old, new) ==
    {FoldSpans(s, 1, 0, 0) : s \in ElementScripts(old, new, 0, 0, FALSE)}

-----------------------------------------------------------------------------
(* The yrs ordered sequence, as the replica that runs the operation sees   *)
(* it.  A cell is [src, val, who, delBy]: val is the yrs value; src the    *)
(* position (1-based) the element had when the operation under way began,  *)
(* 0 for an element created since; who the replica that created it         *)
(* ("base" for an element that was there); delBy the replicas that removed *)
(* it.  A removed element stays in the sequence as a tombstone.            *)

Reverse(s) == [k \in 1..Len(s) |-> s[Len(s) + 1 - k]]

RemoveCall(index, len) == [call |-> "remove_range", index |-> index,
                           len |-> len, values |-> <<>>]
InsertCall(index, values) == [call |-> "insert_range", index |-> index,
                              len |-> Len(values), values |-> values]

IsVisible(cell) == cell.delBy = {}
Visible(cells) == SelectSeq(cells, IsVisible)

\* Number of visible cells among the first p
VisibleRank(cells, p) == Cardinality({q \in 1..p : IsVisible(cells[q])})

\* Position of the index-th visible cell, 0 for index 0
VisiblePos(cells, index) ==
    IF index = 0 THEN 0
    ELSE CHOOSE p \in 1..Len(cells) :
            IsVisible(cells[p]) /\ VisibleRank(cells, p) = index

\* Array::remove_range and Array::insert_range panic outside the bounds
CallInBounds(cells, c) ==
    IF c.call = "remove_range" THEN c.index + c.len <= Len(Visible(cells))
    ELSE c.index <= Len(Visible(cells))

\* remove_range marks the len visible elements from index on as removed;
\* insert_range puts the new elements right after the index-th visible one
ApplyCall(cells, c, who) ==
    IF c.call = "remove_range"
    THEN [p \in 1..Len(cells) |->
            IF /\ IsVisible(cells[p])
               /\ VisibleRank(cells, p) \in (c.index + 1)..(c.index + c.len)
            THEN [cells[p] EXCEPT !.delBy = @ \cup {who}]
            ELSE cells[p]]
    ELSE LET p == VisiblePos(cells, c.index) IN
         SubSeq(cells, 1, p)
            \o [k \in 1..Len(c.values) |->
                    [src |-> 0, val |-> AString(c.values[k]), who |-> who,
                     delBy |-> {}]]
            \o SubSeq(cells, p + 1, Len(cells))

\* Runs the calls in order; stops at the first call that panics
RECURSIVE ApplyCalls(_, _, _, _)
ApplyCalls(cells, calls, k, who) ==
    IF k > Len(calls) THEN [items |-> cells, panicked |-> FALSE]
    ELSE IF ~CallInBounds(cells, calls[k])
    THEN [items |-> cells, panicked |-> TRUE]
    ELSE ApplyCalls(ApplyCall(cells, calls[k], who), calls, k + 1, who)

Tagged(vals) ==
    [k \in 1..Len(vals) |->
        [src |-> k, val |-> vals[k], who |-> "base", delBy |-> {}]]
Untagged(cells) == [k \in 1..Len(cells) |-> cells[k].val]
Strings(cells) == [k \in 1..Len(cells) |-> cells[k].val.v]

-----------------------------------------------------------------------------
(* YTaskProxy: field writers *)

set_id(y_task, id) == TryUpdate(y_task, "id", AString(id))
set_num(y_task, num) == TryUpdate(y_task, "num", AString(num))
set_name(y_task, name) == TryUpdate(y_task, "name", AString(name))

\* Map::get_or_init: an entry that is absent or of another type is reset
GetOrInit(m, key, tag) ==
    IF m[key].tag = tag THEN m ELSE MapInsert(m, key, Val(tag, <<>>))

\* Text::remove_range, Text::insert
TextRemoveRange(chars, index, len) ==
    SubSeq(chars, 1, index) \o SubSeq(chars, index + len + 1, Len(chars))
TextInsert(chars, index, s) ==
    SubSeq(chars, 1, index) \o s \o SubSeq(chars, index + 1, Len(chars))

set_desc(y_task, desc) ==
    IF IsSome(desc)
    THEN LET m == GetOrInit(y_task, "desc", "YText")
             y_desc == m["desc"].v
             cleared == TextRemoveRange(y_desc, 0, Len(y_desc))
         IN  MapInsert(m, "desc", YText(TextInsert(cleared, 0, Unwrap(desc))))
    ELSE TryUpdate(y_task, "desc", ANull)

\* mutant: the ops applied lowest index first
DiffOrder_Forward(ops) == ops

\* The order in which set_children walks the diff: `.into_iter().rev()`
DiffOrder(ops) == Reverse(ops)

\* mutant: an Equal span removed and inserted again
OpCalls_RewriteEqual(op, new_children) ==
    LET span == SubSeq(new_children, op.new_index + 1,
                       op.new_index + op.new_len)
    IN  CASE op.tag = "Delete" -> <<RemoveCall(op.old_index, op.old_len)>>
          [] op.tag = "Insert" -> <<InsertCall(op.old_index, span)>>
          [] OTHER -> <<RemoveCall(op.old_index, op.old_len),
                        InsertCall(op.old_index, span)>>

\* The yrs calls set_children issues for one DiffOp
OpCalls(op, new_children) ==
    LET span == SubSeq(new_children, op.new_index + 1,
                       op.new_index + op.new_len)
    IN  CASE op.tag = "Delete" -> <<RemoveCall(op.old_index, op.old_len)>>
          [] op.tag = "Insert" -> <<InsertCall(op.old_index, span)>>
          [] op.tag = "Replace" -> <<RemoveCall(op.old_index, op.old_len),
                                     InsertCall(op.old_index, span)>>
          [] OTHER -> <<>>

RECURSIVE OpsCalls(_, _, _)
OpsCalls(ops, k, new_children) ==
    IF k > Len(ops) THEN <<>>
    ELSE OpCalls(ops[k], new_children) \o OpsCalls(ops, k + 1, new_children)

\* mutant: the sequence always cleared and filled again
set_children_calls_Clobber(y_task, new_children, script) ==
    <<RemoveCall(0, Len(y_task["children"].v)), InsertCall(0, new_children)>>

\* The yrs calls of set_children on y_task (after get_or_init), given the
\* script capture_diff_slices returned
set_children_calls(y_task, new_children, script) ==
    LET old_children == get_children(y_task) IN
    IF ~old_children.ok
    THEN <<RemoveCall(0, Len(y_task["children"].v)),
           InsertCall(0, new_children)>>
    ELSE IF old_children.val # new_children
    THEN OpsCalls(DiffOrder(script), 1, new_children)
    ELSE <<>>

\* The scripts the diff may return for set_children on y_task
children_scripts(y_task, new_children) ==
    LET old_children == get_children(GetOrInit(y_task, "children", "YArray")) IN
    IF old_children.ok /\ old_children.val # new_children
    THEN capture_diff_slices(old_children.val, new_children)
    ELSE {<<>>}

\* set_children on the local replica: [y_task, calls, items, panicked]
set_children_run(y_task, new_children, script) ==
    LET m == GetOrInit(y_task, "children", "YArray")
        calls == set_children_calls(m, new_children, script)
        run == ApplyCalls(Tagged(m["children"].v), calls, 1, "A")
    IN  [y_task |-> MapInsert(m, "children",
                              YArray(Untagged(Visible(run.items)))),
         calls |-> calls, items |-> run.items, panicked |-> run.panicked]

set_children(y_task, new_children, script) ==
    set_children_run(y_task, new_children, script).y_task

\* The elements of the children sequence that set_children and push_child
\* work on: those of the sequence get_or_init returns
OldItems(y_task) == GetOrInit(y_task, "children", "YArray")["children"].v

-----------------------------------------------------------------------------
(* The document runtime's merge of two replicas' concurrent edits of one   *)
(* sequence with n elements.  Both replicas keep the n cells in order; a   *)
(* cell is removed if either replica removed it; the cells a replica       *)
(* created between two of them stay between them, those of the replica     *)
(* with the lower client id first.                                         *)

\* Number of cells of the common sequence among the first p
BaseRank(cells, p) == Cardinality({q \in 1..p : cells[q].src # 0})

RECURSIVE CreatedInGap(_, _, _)
CreatedInGap(cells, k, p) ==
    IF p > Len(cells) THEN <<>>
    ELSE (IF cells[p].src = 0 /\ BaseRank(cells, p) = k
          THEN <<cells[p]>> ELSE <<>>)
            \o CreatedInGap(cells, k, p + 1)

BaseCell(cells, k) == cells[CHOOSE p \in 1..Len(cells) : cells[p].src = k]

RECURSIVE MergeFrom(_, _, _, _, _)
MergeFrom(n, mine, theirs, mineFirst, k) ==
    LET a == CreatedInGap(mine, k, 1)
        b == CreatedInGap(theirs, k, 1)
        gap == IF mineFirst THEN a \o b ELSE b \o a
    IN  IF k = n THEN gap
        ELSE gap
             \o <<[BaseCell(mine, k + 1) EXCEPT
                      !.delBy = @ \cup BaseCell(theirs, k + 1).delBy]>>
             \o MergeFrom(n, mine, theirs, mineFirst, k + 1)

\* The replica holding `mine` after it has applied the update of the
\* replica holding `theirs`
MergeCells(n, mine, theirs, mineFirst) == MergeFrom(n, mine, theirs, mineFirst, 0)

\* mutant: the child appended without the scan
push_child_NoScan(y_task, child) ==
    LET m == GetOrInit(y_task, "children", "YArray") IN
    [y_task |-> MapInsert(m, "children",
                          YArray(Append(m["children"].v, AString(child)))),
     ret |-> Ok(TRUE)]

\* push_child: [y_task, ret]
push_child(y_task, child) ==
    LET m == GetOrInit(y_task, "children", "YArray")
        y_children == m["children"].v
    IN  IF \E k \in 1..Len(y_children) :
               y_children[k].tag = "String" /\ y_children[k].v = child
        THEN [y_task |-> m, ret |-> Ok(FALSE)]
        ELSE [y_task |-> MapInsert(m, "children",
                            YArray(Append(y_children, AString(child)))),
              ret |-> Ok(TRUE)]

set_assignee(y_task, v) == TryUpdate(y_task, "assignee", AnyFromOptStr(v))
set_reporter(y_task, v) == TryUpdate(y_task, "reporter", AnyFromOptStr(v))
set_status(y_task, v) == TryUpdate(y_task, "status", AnyFromOptStr(v))
set_status_time(y_task, v) == TryUpdate(y_task, "statusTime", AnyFromOptI64(v))
set_url(y_task, v) == TryUpdate(y_task, "url", AnyFromOptStr(v))
\* mutant: an absent kind leaves the stored kind alone (a patch)
set_kind_Patch(y_task, v) ==
    IF IsSome(v) THEN TryUpdate(y_task, "kind", AnyFromOptStr(v)) ELSE y_task

set_kind(y_task, v) == TryUpdate(y_task, "kind", AnyFromOptStr(v))
\* mutant: the estimate written under the deadline key
set_estimate_AsDeadline(y_task, v) ==
    TryUpdate(y_task, "deadline", AnyFromOptI64(v))

set_estimate(y_task, v) == TryUpdate(y_task, "estimate", AnyFromOptI64(v))
set_deadline(y_task, v) == TryUpdate(y_task, "deadline", AnyFromOptI64(v))
set_archived(y_task, v) == TryUpdate(y_task, "archived", AnyFromOptBool(v))

\* mutant: "Rollup", or else any node with children
is_rollup_KindOrChildren(y_task) ==
    LET kind == get_kind(y_task)
        children == get_children(y_task)
    IN  IF ~kind.ok THEN kind
        ELSE IF kind.val = Some(Rollup) THEN Ok(TRUE)
        ELSE IF ~children.ok THEN children ELSE Ok(children.val # <<>>)

is_rollup(y_task) ==
    LET kind == get_kind(y_task) IN
    IF ~kind.ok THEN kind
    ELSE IF IsSome(kind.val) THEN Ok(Unwrap(kind.val) = Rollup)
    ELSE LET children == get_children(y_task) IN
         IF ~children.ok THEN children ELSE Ok(children.val # <<>>)

is_managed(y_task) ==
    LET kind == get_kind(y_task) IN
    IF ~kind.ok THEN kind
    ELSE Ok(IsSome(kind.val) /\ Unwrap(kind.val) \in MANAGED_KINDS)

-----------------------------------------------------------------------------
(* YDocProxy *)

Ids == {<<"a">>, <<"b">>, <<"c">>}

\* self.graph.keys(txn): the keys present, in the map's own enumeration order
Keys(g) == {id \in Ids : g[id].tag # "Missing"}

KeyOrders(g) ==
    LET n == Cardinality(Keys(g)) IN
    {o \in [1..n -> Keys(g)] : \A i, j \in 1..n : o[i] = o[j] => i = j}

get(g, id) ==
    IF g[id].tag = "Missing" THEN Err("task is missing")
    ELSE IF g[id].tag # "YMap" THEN Err("task is not a map")
    ELSE Ok(g[id].v)

\* get(txn, id)?.to_task(txn)?
get_to_task(g, id) ==
    LET y_task == get(g, id) IN
    IF ~y_task.ok THEN y_task ELSE to_task(y_task.val)

\* to_graph: the loop over the first k keys of `order` stops at the first error
RECURSIVE to_graph_loop(_, _, _, _)

\* mutant: a node that fails to materialize is left out of the graph
RECURSIVE to_graph_loop_SkipBad(_, _, _, _)
to_graph_loop_SkipBad(g, order, k, acc) ==
    IF k > Len(order) THEN Ok(acc)
    ELSE LET t == get_to_task(g, order[k]) IN
         IF ~t.ok THEN to_graph_loop_SkipBad(g, order, k + 1, acc)
         ELSE to_graph_loop_SkipBad(g, order, k + 1,
                            [id \in DOMAIN acc \cup {order[k]} |->
                                IF id = order[k] THEN t.val ELSE acc[id]])

to_graph_loop(g, order, k, acc) ==
    IF k > Len(order) THEN Ok(acc)
    ELSE LET t == get_to_task(g, order[k]) IN
         IF ~t.ok THEN t
         ELSE to_graph_loop(g, order, k + 1,
                            [id \in DOMAIN acc \cup {order[k]} |->
                                IF id = order[k] THEN t.val ELSE acc[id]])

to_graph(g, order) == to_graph_loop(g, order, 1, <<>>)

\* tasks: a handle (here the id) for every key, or the first error of get
tasks(g, order) ==
    LET bad == {k \in 1..Len(order) : ~get(g, order[k]).ok} IN
    IF bad # {} THEN get(g, order[CHOOSE k \in bad : \A j \in bad : k <= j])
    ELSE Ok(order)

\* YDocProxy::set with the script the diff returned: [graph, panicked]
set(g, task, script) ==
    LET y0 == IF g[task.id].tag = "YMap" THEN g[task.id].v ELSE EmptyMap
        y1 == set_id(y0, task.id)
        y2 == set_num(y1, task.num)
        y3 == set_name(y2, task.name)
        y4 == set_desc(y3, task.desc)
        run == set_children_run(y4, task.children, script)
        y5 == run.y_task
        y6 == set_assignee(y5, task.assignee)
        y7 == set_reporter(y6, task.reporter)
        y8 == set_status(y7, task.status)
        y9 == set_status_time(y8, task.status_time)
        y10 == set_url(y9, task.url)
        y11 == set_kind(y10, task.kind)
        y12 == set_estimate(y11, task.estimate)
        y13 == set_deadline(y12, task.deadline)
        y14 == set_archived(y13, task.archived)
    IN  [graph |-> [g EXCEPT ![task.id] = YMap(y14)],
         panicked |-> run.panicked]

\* The scripts the diff may return inside set(g, task)
set_scripts(g, task) ==
    children_scripts(IF g[task.id].tag = "YMap" THEN g[task.id].v ELSE EmptyMap,
                     task.children)

\* get_by_nums: the handles (ids) pushed, in scan order
RECURSIVE get_by_nums_loop(_, _, _, _, _)
get_by_nums_loop(g, order, nums, k, found) ==
    IF k > Len(order) THEN Ok(found)
    ELSE LET task == get(g, order[k]) IN
         IF ~task.ok THEN task
         ELSE LET num == get_num(task.val) IN
              IF ~num.ok THEN num
              ELSE IF num.val \in nums
              THEN LET pushed == Append(found, order[k]) IN
                   IF Len(pushed) = Cardinality(nums)
                   THEN Ok(pushed)
                   ELSE get_by_nums_loop(g, order, nums, k + 1, pushed)
              ELSE get_by_nums_loop(g, order, nums, k + 1, found)

get_by_nums(g, order, nums) ==
    IF nums = {} THEN Ok(<<>>) ELSE get_by_nums_loop(g, order, nums, 1, <<>>)

\* str::parse::<u64>: an optional "+", then one or more decimal digits, with
\* checked arithmetic
Digits == <<"0", "1", "2", "3", "4", "5", "6", "7", "8", "9">>
IsDigit(c) == \E d \in 1..10 : Digits[d] = c
DigitValue(c) == (CHOOSE d \in 1..10 : Digits[d] = c) - 1

RECURSIVE ParseDigits(_, _, _)
ParseDigits(s, k, acc) ==
    IF k > Len(s) THEN Ok(acc)
    ELSE IF ~IsDigit(s[k]) THEN Err("invalid digit found in string")
    ELSE LET next == acc * 10 + DigitValue(s[k]) IN
         IF next > U64Max THEN Err("number too large to fit in target type")
         ELSE ParseDigits(s, k + 1, next)

ParseU64(s) ==
    IF s = <<>> THEN Err("cannot parse integer from empty string")
    ELSE LET digits == IF s[1] = "+" THEN Tail(s) ELSE s IN
         IF digits = <<>> THEN Err("invalid digit found in string")
         ELSE ParseDigits(digits, 1, 0)

Panic == [ok |-> FALSE, val |-> "panic"]

\* `max_num + 1` on u64: panics with overflow checks, wraps without
U64AddOne(n) ==
    IF n < U64Max THEN Ok(n + 1)
    ELSE IF build.overflow_checks THEN Panic ELSE Ok(0)

RECURSIVE next_num_loop(_, _, _, _)
next_num_loop(g, order, k, max_num) ==
    IF k > Len(order) THEN U64AddOne(max_num)
    ELSE LET task == get(g, order[k]) IN
         IF ~task.ok THEN task
         ELSE LET s == get_num(task.val) IN
              IF ~s.ok THEN s
              ELSE LET num == ParseU64(s.val) IN
                   IF ~num.ok THEN num
                   ELSE next_num_loop(g, order, k + 1,
                            IF num.val > max_num THEN num.val ELSE max_num)

next_num(g, order) == next_num_loop(g, order, 1, 0)

-----------------------------------------------------------------------------
(* Inputs *)

IdA == <<"a">>
IdB == <<"b">>
IdC == <<"c">>

\* u64::to_string
RECURSIVE ToDecimal(_)
ToDecimal(n) ==
    IF n < 10 THEN <<Digits[n + 1]>>
    ELSE ToDecimal(n \div 10) \o <<Digits[(n % 10) + 1]>>

TaskFields == {"id", "num", "name", "desc", "children", "assignee",
               "reporter", "status", "status_time", "url", "kind",
               "estimate", "deadline", "archived"}
OptionalFields == TaskFields \ {"id", "num", "name", "children"}
NumberFields == {"status_time", "estimate", "deadline"}

\* Task { id, num, name, ..Task::default() }
RequiredOnly(id, num) ==
    [id |-> id, num |-> num, name |-> <<"T">>, desc |-> None,
     children |-> <<>>, assignee |-> None, reporter |-> None,
     status |-> None, status_time |-> None, url |-> None, kind |-> None,
     estimate |-> None, deadline |-> None, archived |-> None]

\* A task with every field populated
Populated(id, num) ==
    [id |-> id, num |-> num, name |-> <<"T">>, desc |-> Some(<<"d", "e">>),
     children |-> <<IdB, IdC>>, assignee |-> Some(<<"x">>),
     reporter |-> Some(<<"y">>), status |-> Some(<<"s">>),
     status_time |-> Some(3), url |-> Some(<<"u">>), kind |-> Some(Rollup),
     estimate |-> Some(1), deadline |-> Some(2), archived |-> Some(FALSE)]

I64Values == {3, F64MaxSafeInteger, -F64MaxSafeInteger,
              F64MaxSafeInteger + 1, F64MaxSafeInteger + 2,
              -(F64MaxSafeInteger + 2), I64Max, I64Min}

FieldValues(f) ==
    CASE f = "id" -> {IdA}
      [] f = "num" -> {ToDecimal(1), ToDecimal(2)}
      [] f = "name" -> {<<"T">>, <<"T", "2">>}
      [] f = "desc" -> {None, Some(<<>>), Some(<<"d">>), Some(<<"d", "e">>)}
      [] f = "children" -> {<<>>, <<IdB>>, <<IdB, IdC>>, <<IdC, IdB>>}
      [] f = "kind" -> {None, Some(Rollup), Some(<<"T", "a", "s", "k">>)}
                          \cup {Some(k) : k \in MANAGED_KINDS}
      [] f = "status_time" -> {None} \cup {Some(v) : v \in I64Values}
      [] f \in {"estimate", "deadline"} ->
            {None, Some(1), Some(F64MaxSafeInteger + 2)}
      [] f = "archived" -> {None, Some(TRUE), Some(FALSE)}
      [] f = "assignee" -> {None, Some(<<>>), Some(<<"x">>)}
      [] OTHER -> {None, Some(<<"x">>)}

\* The tasks written in Spec: the two profiles and every change of one field
Tasks ==
    LET base == {RequiredOnly(IdA, ToDecimal(1)), Populated(IdA, ToDecimal(1))}
    IN  UNION {{[b EXCEPT ![f] = v] : v \in FieldValues(f)} :
                 b \in base, f \in TaskFields}

NotANumber == <<"a", "b", "c">>

\* The nums written in SpecGraph
GraphNums == {ToDecimal(1), ToDecimal(2), ToDecimal(3), ToDecimal(U64Max)}

\* The tasks written in SpecGraph
GraphTasks == {RequiredOnly(id, num) : id \in Ids, num \in GraphNums}

\* The variant the schema gives each field of a node
FieldVariant(f) ==
    CASE f \in {"statusTime", "estimate", "deadline"} -> "Number"
      [] f = "archived" -> "Bool"
      [] f = "desc" -> "YText"
      [] f = "children" -> "YArray"
      [] OTHER -> "String"

\* What another writer of the document may leave in a field: a required
\* field absent or null, a value of another variant than the field's, a
\* value of the field's variant
ForeignWrites ==
    {<<f, v>> : f \in {"id", "num", "name"}, v \in {Missing, ANull}}
    \cup {<<f, IF FieldVariant(f) = "String"
                THEN ANumber(3) ELSE AString(<<"x">>)>> : f \in Fields}
    \cup {<<"num", AString(NotANumber)>>, <<"num", AString(ToDecimal(2))>>,
          <<"name", AUndefined>>, <<"kind", AString(Rollup)>>,
          <<"estimate", ANumber(3)>>, <<"statusTime", ABigInt(I64Max)>>,
          <<"archived", ANull>>, <<"desc", YText(<<"d">>)>>,
          <<"children", ANull>>,
          <<"children", YArray(<<AString(IdB)>>)>>,
          <<"children", YArray(<<AString(IdB), ANumber(1)>>)>>}

\* What another writer may leave in the num of a node
NumWrites ==
    {<<"num", v>> : v \in {Missing, ANull, ANumber(3), AString(NotANumber),
                           AString(ToDecimal(2))}}

\* The tasks written in SpecMalformed
MalformedTasks ==
    {RequiredOnly(id, ToDecimal(1)) : id \in Ids}
    \cup {Populated(IdA, ToDecimal(2))}

\* What another writer may leave under a key of the graph in place of a node
ForeignEntries == {Missing, AString(<<"x">>), YArray(<<>>)}

-----------------------------------------------------------------------------
(* State machine *)

NoRun == [calls |-> <<>>, items |-> <<>>, remote_items |-> <<>>,
          old |-> <<>>, script |-> <<>>]

\* The record of an operation: what was on the node before, the call, its
\* result, and for the children writers the elements before, the script of
\* the diff, the yrs calls issued and the cells of the sequence afterwards
\* (on this replica and, after an exchange of updates, on the other)
Op(name, id, arg, ret, before, run) ==
    [name |-> name, id |-> id, arg |-> arg, ret |-> ret, before |-> before,
     calls |-> run.calls, items |-> run.items,
     remote_items |-> run.remote_items, old |-> run.old,
     script |-> run.script]

\* What the entry under id holds before an operation: whether it is a node,
\* and the variant of its desc, children and kind
TagsOf(g, id) ==
    LET y == IF g[id].tag = "YMap" THEN g[id].v ELSE EmptyMap IN
    [node |-> g[id].tag = "YMap", desc |-> y["desc"].tag,
     children |-> y["children"].tag, kind |-> y["kind"].tag]

Builds == [bigint : BOOLEAN, overflow_checks : BOOLEAN]

\* YDocProxy::new(): an empty graph
NewDoc ==
    /\ graph = [id \in Ids |-> Missing]
    /\ last = Op("new", IdA, <<>>, Ok(<<>>), TagsOf(graph, IdA), NoRun)
    /\ foreign = 0

\* Spec writes and reads tasks; it has no u64 addition, so only the i64
\* conversion of the build varies
Init ==
    /\ NewDoc
    /\ build \in {b \in Builds : b.overflow_checks}

\* ydoc.set(&mut txn, &task) in a mutation scope of its own
Set(task) ==
    \E script \in set_scripts(graph, task) :
        LET r == set(graph, task, script) IN
        /\ graph' = r.graph
        /\ last' = Op("set", task.id, task,
                      IF r.panicked THEN Panic ELSE Ok(task.id),
                      TagsOf(graph, task.id), NoRun)
        /\ UNCHANGED <<foreign, build>>

\* Another writer of the document (a client, a remote update) sets a field
ForeignField(id, field, v) ==
    /\ foreign < MaxForeign
    /\ graph[id].tag = "YMap"
    /\ graph' = [graph EXCEPT ![id] = YMap(MapInsert(graph[id].v, field, v))]
    /\ last' = Op("foreign", id, <<>>, Ok(<<>>), TagsOf(graph, id), NoRun)
    /\ foreign' = foreign + 1
    /\ UNCHANGED build

\* Another writer removes an entry of the graph or replaces it by a value
\* that is no map
ForeignEntry(id, v) ==
    /\ foreign < MaxForeign
    /\ graph' = [graph EXCEPT ![id] = v]
    /\ last' = Op("foreign", id, <<>>, Ok(<<>>), TagsOf(graph, id), NoRun)
    /\ foreign' = foreign + 1
    /\ UNCHANGED build

Next == \E task \in Tasks : Set(task)

Spec == Init /\ [][Next]_vars

\* SpecGraph: several nodes with their nums, written through set and by
\* other writers.  It writes no integer field, so only the overflow checks
\* of the build vary.
InitGraph ==
    /\ NewDoc
    /\ build \in {b \in Builds : b.bigint}

NextGraph ==
    \/ \E task \in GraphTasks : Set(task)
    \/ \E id \in Ids, w \in NumWrites : ForeignField(id, w[1], w[2])
    \/ \E id \in Ids, v \in ForeignEntries : ForeignEntry(id, v)

SpecGraph == InitGraph /\ [][NextGraph]_vars

\* SpecMalformed: a loaded document with several nodes; another writer may
\* have left one entry, or one field of one node, in any shape.  The
\* integers written are small and there is no u64 addition: the build is
\* fixed.

\* The node set(task) writes into an empty graph
NodeOf(task) ==
    LET g == [id \in Ids |-> Missing] IN
    set(g, task, CHOOSE script \in set_scripts(g, task) : TRUE).graph[task.id]

\* The documents the proxy has written
WrittenGraphs ==
    {g \in [Ids -> {Missing} \cup {NodeOf(task) : task \in MalformedTasks}] :
        \A id \in Ids : g[id].tag = "YMap" => g[id].v["id"] = AString(id)}

\* What another writer may have made of an entry
Damaged(entry) ==
    ForeignEntries
    \cup (IF entry.tag = "YMap"
          THEN {YMap(MapInsert(entry.v, w[1], w[2])) : w \in ForeignWrites}
          ELSE {})

\* YDocProxy::new_from_existing_doc
InitMalformed ==
    /\ build = [bigint |-> TRUE, overflow_checks |-> TRUE]
    /\ \E g \in WrittenGraphs : \E id \in Ids :
          graph \in {g} \cup {[g EXCEPT ![id] = d] : d \in Damaged(g[id])}
    /\ last = Op("new", IdA, <<>>, Ok(<<>>), TagsOf(graph, IdA), NoRun)
    /\ foreign = 0

NextMalformed == \E task \in MalformedTasks : Set(task)

SpecMalformed == InitMalformed /\ [][NextMalformed]_vars

-----------------------------------------------------------------------------
(* The children writers on one node of a loaded document *)

IdD == <<"d">>
ChildIds == Ids \cup {IdD}

NoDup(s) == \A i, j \in 1..Len(s) : s[i] = s[j] => i = j

\* The lists of children: every duplicate-free list of at most MaxChildren
\* of the ids a, b, c, some lists with a fourth id, and some lists with a
\* repeated id
ChildLists ==
    {s \in UNION {[1..n -> Ids] : n \in 0..MaxChildren} : NoDup(s)}
    \cup {<<IdD>>, <<IdB, IdC, IdD>>, <<IdD, IdA, IdB>>}
    \cup {<<IdA, IdA>>, <<IdA, IdB, IdA>>}

StringItems(list) == [k \in 1..Len(list) |-> AString(list[k])]

\* What the children field of a loaded node may hold: nothing, a sequence
\* of strings, a sequence with an element that is no string, no sequence
ChildContents ==
    {Missing, ANull, AString(<<"x">>)}
    \cup {YArray(StringItems(list)) : list \in ChildLists}
    \cup {YArray(<<ANumber(1)>>),
          YArray(<<AString(IdA), ANumber(1), AString(IdB)>>)}

LoadedNode(children) ==
    [EmptyMap EXCEPT !["id"] = AString(IdA), !["num"] = AString(ToDecimal(1)),
                     !["name"] = AString(<<"T">>), !["children"] = children]

\* YDocProxy::new_from_existing_doc: a document holding node "a"
Loaded(children) ==
    /\ graph = [id \in Ids |->
                  IF id = IdA THEN YMap(LoadedNode(children)) ELSE Missing]
    /\ last = Op("new", IdA, <<>>, Ok(<<>>), TagsOf(graph, IdA), NoRun)
    /\ foreign = 0
    /\ build = [bigint |-> TRUE, overflow_checks |-> TRUE]

InitChildren == \E children \in ChildContents : Loaded(children)

\* get(id)?.set_children(&mut txn, new_children)
SetChildren(id, new_children) ==
    /\ graph[id].tag = "YMap"
    /\ \E script \in children_scripts(graph[id].v, new_children) :
          LET run == set_children_run(graph[id].v, new_children, script) IN
          /\ graph' = [graph EXCEPT ![id] = YMap(run.y_task)]
          /\ last' = Op("set_children", id, new_children,
                        IF run.panicked THEN Panic ELSE Ok(<<>>),
                        TagsOf(graph, id),
                        [calls |-> run.calls, items |-> run.items,
                         remote_items |-> <<>>,
                         old |-> OldItems(graph[id].v), script |-> script])
    /\ UNCHANGED <<foreign, build>>

\* get(id)?.push_child(&mut txn, child); the sequence is kept within
\* MaxChildren elements
PushChild(id, child) ==
    /\ graph[id].tag = "YMap"
    /\ LET r == push_child(graph[id].v, child) IN
       /\ r.ret = Ok(TRUE) => Len(OldItems(graph[id].v)) < MaxChildren
       /\ graph' = [graph EXCEPT ![id] = YMap(r.y_task)]
       /\ last' = Op("push_child", id, child, r.ret, TagsOf(graph, id),
                     [NoRun EXCEPT !.old = OldItems(graph[id].v)])
    /\ UNCHANGED <<foreign, build>>

NextChildren ==
    \/ \E list \in ChildLists : SetChildren(IdA, list)
    \/ \E child \in ChildIds : PushChild(IdA, child)

SpecChildren == InitChildren /\ [][NextChildren]_vars

\* SpecReplicas: two replicas of a loaded document whose node holds a
\* sequence of strings.
InitReplicas == \E list \in ChildLists : Loaded(YArray(StringItems(list)))

\* What the other replica does to the sequence meanwhile: it inserts one
\* element or removes one
RemoteCalls(n) ==
    {InsertCall(i, <<c>>) : i \in 0..n, c \in {IdA, <<"z">>}}
    \cup {RemoveCall(i, 1) : i \in 0..(n - 1)}

\* Replica A runs set_children while replica B, from the same state, runs
\* remote; then each applies the other's update.  a_first: A has the lower
\* client id.  One exchange is followed from every loaded state.
Concurrent(id, new_children, remote, a_first) ==
    /\ foreign = 0
    /\ graph[id].tag = "YMap"
    /\ graph[id].v["children"].tag = "YArray"
    /\ get_children(graph[id].v).ok
    /\ \E script \in children_scripts(graph[id].v, new_children) :
          LET old == OldItems(graph[id].v)
              runA == set_children_run(graph[id].v, new_children, script)
              runB == ApplyCalls(Tagged(old), <<remote>>, 1, "B")
              atA == MergeCells(Len(old), runA.items, runB.items, a_first)
              atB == MergeCells(Len(old), runB.items, runA.items, ~a_first)
          IN
          /\ graph' = [graph EXCEPT ![id] =
                          YMap(MapInsert(runA.y_task, "children",
                                         YArray(Untagged(Visible(atA)))))]
          /\ last' = Op("concurrent", id,
                        [target |-> new_children, remote |-> remote],
                        IF runA.panicked \/ runB.panicked
                        THEN Panic ELSE Ok(<<>>),
                        TagsOf(graph, id),
                        [calls |-> runA.calls, items |-> atA,
                         remote_items |-> atB, old |-> old,
                         script |-> script])
    /\ foreign' = 1
    /\ UNCHANGED build

NextReplicas ==
    \E list \in ChildLists, a_first \in BOOLEAN :
        \E remote \in RemoteCalls(Len(OldItems(graph[IdA].v))) :
            Concurrent(IdA, list, remote, a_first)

SpecReplicas == InitReplicas /\ [][NextReplicas]_vars

-----------------------------------------------------------------------------
(* Properties of set and to_task (Spec) *)

\* Every integer field of the task is absent or within the range in which
\* an f64 holds every integer exactly
SafeIntegers(task) ==
    \A f \in NumberFields :
        IsSome(task[f]) => Abs(Unwrap(task[f])) <= F64MaxSafeInteger

\* get(txn, id).to_task(txn) after the last set returns the task written
ReadsBack(task) ==
    LET r == get_to_task(graph, task.id) IN r.ok /\ r.val = task

\* C1 as stated: after set(t), get(t.id).to_task() succeeds and equals t, for
\* every task t.
C1_RoundTripEveryTask ==
    last.name = "set" => last.ret.ok /\ ReadsBack(last.arg)

\* C1 amended: after set(t), get(t.id).to_task() succeeds and equals t field
\* by field, and every optional field absent in t reads back absent, for
\* every task t whose integer fields are absent or at most 2^53 - 1 in
\* magnitude.
C1_RoundTripSafeIntegers ==
    (last.name = "set" /\ SafeIntegers(last.arg)) =>
        /\ last.ret.ok
        /\ ReadsBack(last.arg)
        /\ \A f \in OptionalFields :
              last.arg[f] = None =>
                  get_to_task(graph, last.arg.id).val[f] = None

C1_Witness ==
    /\ last.name = "set"
    /\ ~last.before.node
    /\ \A f \in OptionalFields : IsSome(last.arg[f])
    /\ last.arg.children # <<>>
    /\ ReadsBack(last.arg)

C1_WitnessRequiredOnly ==
    /\ last.name = "set"
    /\ last.arg = RequiredOnly(IdA, ToDecimal(1))
    /\ ReadsBack(last.arg)

\* C2 as stated: a set on a node that already holds a task leaves exactly the
\* task given, whatever the two tasks are.
C2_OverwriteEveryTask ==
    (last.name = "set" /\ last.before.node) =>
        LET r == get_to_task(graph, last.id) IN
        r.ok /\ \A f \in TaskFields : r.val[f] = last.arg[f]

\* C2 amended: a set on a node that already holds a task leaves exactly the
\* task given (a field the node held and the task lacks reads back absent,
\* desc and children are those of the task), for every task whose integer
\* fields are absent or at most 2^53 - 1 in magnitude.
C2_OverwriteSafeIntegers ==
    (last.name = "set" /\ last.before.node /\ SafeIntegers(last.arg)) =>
        LET r == get_to_task(graph, last.id) IN
        r.ok /\ \A f \in TaskFields : r.val[f] = last.arg[f]

\* A second set that drops a field the node held and gives a text to a desc
\* that an earlier set had cleared
C2_Witness ==
    /\ last.name = "set"
    /\ last.before.node
    /\ last.before.desc = "Null"
    /\ IsSome(last.arg.desc)
    /\ last.before.kind = "String"
    /\ last.arg.kind = None
    /\ ReadsBack(last.arg)

\* C9 as stated: is_rollup is true for kind "Rollup" and otherwise says
\* whether children is non-empty, whatever the kind.
C9_RollupOrChildren ==
    \A id \in Keys(graph) :
        LET y == graph[id].v
            kind == get_kind(y)
            children == get_children(y)
        IN  (kind.ok /\ children.ok) =>
                is_rollup(y) = Ok(kind.val = Some(Rollup) \/ children.val # <<>>)

\* C9 amended: is_rollup says whether kind is "Rollup" when the node has a
\* kind, and whether children is non-empty only when it has none.
C9_RollupByKindElseChildren ==
    \A id \in Keys(graph) :
        LET y == graph[id].v
            kind == get_kind(y)
            children == get_children(y)
        IN  (kind.ok /\ children.ok) =>
                is_rollup(y) = Ok(IF IsSome(kind.val)
                                  THEN Unwrap(kind.val) = Rollup
                                  ELSE children.val # <<>>)

\* A node of a managed kind with children: not a rollup
C9_Witness ==
    \E id \in Keys(graph) :
        LET y == graph[id].v IN
        /\ get_kind(y).ok /\ IsSome(get_kind(y).val)
        /\ Unwrap(get_kind(y).val) \in MANAGED_KINDS
        /\ get_children(y).ok /\ get_children(y).val # <<>>
        /\ is_rollup(y) = Ok(FALSE)

-----------------------------------------------------------------------------
(* Properties of the graph readers (SpecGraph, SpecMalformed) *)

\* The entry is a node whose num is a string
HasNum(g, id) == g[id].tag = "YMap" /\ g[id].v["num"].tag = "String"
NumOf(g, id) == g[id].v["num"].v

\* C7 as stated: next_num never panics; it returns 1 on an empty graph; when
\* every num parses it returns max + 1, greater than every num in the
\* graph, also for the largest u64; and it fails when some num does not parse.
C7_NextNumAboveEveryNum ==
    \A order \in KeyOrders(graph) :
        LET r == next_num(graph, order)
            parses == \A id \in Keys(graph) :
                         HasNum(graph, id) /\ ParseU64(NumOf(graph, id)).ok
        IN  /\ r # Panic
            /\ Keys(graph) = {} => r = Ok(1)
            /\ parses =>
                  /\ r.ok
                  /\ \A id \in Keys(graph) :
                        r.val > ParseU64(NumOf(graph, id)).val
                  /\ \/ Keys(graph) = {}
                     \/ \E id \in Keys(graph) :
                           r.val = ParseU64(NumOf(graph, id)).val + 1
            /\ ~parses => ~r.ok

\* C8 as stated: on a graph of nodes with string nums, get_by_nums(nums)
\* returns only nodes whose num is in nums, and every requested num that
\* some node holds is the num of a returned node, also with duplicate nums.
C8_EveryHeldNumReturned ==
    \A order \in KeyOrders(graph), nums \in SUBSET GraphNums :
        (\A id \in Keys(graph) : HasNum(graph, id)) =>
            LET r == get_by_nums(graph, order, nums) IN
            /\ r.ok
            /\ \A k \in 1..Len(r.val) : NumOf(graph, r.val[k]) \in nums
            /\ \A n \in nums :
                  (\E id \in Keys(graph) : NumOf(graph, id) = n) =>
                      \E k \in 1..Len(r.val) : NumOf(graph, r.val[k]) = n

\* The entry is a map whose fields hold what the document schema says:
\* id, num and name a string; every other field absent, null, or a value of
\* its variant; children a sequence of strings
WellFormed(entry) ==
    /\ entry.tag = "YMap"
    /\ \A f \in Fields :
          LET x == entry.v[f] IN
          \/ x.tag = FieldVariant(f)
                /\ (f = "children" =>
                        \A k \in 1..Len(x.v) : x.v[k].tag = "String")
          \/ x.tag \in {"Missing", "Null", "Undefined"}
                /\ f \notin {"id", "num", "name"}
                /\ (f = "children" => x.tag = "Missing")

\* C10: to_graph fails as soon as one entry is malformed, and otherwise
\* returns one task per key, the to_task of that node; get fails on an
\* absent id and on an entry that is no map.
C10_ToGraphFailFast ==
    /\ \A order \in KeyOrders(graph) :
          LET r == to_graph(graph, order) IN
          IF \E id \in Keys(graph) : ~WellFormed(graph[id])
          THEN ~r.ok
          ELSE /\ r.ok
               /\ DOMAIN r.val = Keys(graph)
               /\ \A id \in Keys(graph) :
                     /\ to_task(graph[id].v).ok
                     /\ r.val[id] = to_task(graph[id].v).val
    /\ \A id \in Ids :
          /\ graph[id].tag = "Missing" => ~get(graph, id).ok
          /\ graph[id].tag \notin {"Missing", "YMap"} => ~get(graph, id).ok
          /\ graph[id].tag = "YMap" => get(graph, id) = Ok(graph[id].v)

\* Three entries after a set, two of them well-formed and one not: to_graph
\* fails in every enumeration order
C10_Witness ==
    /\ last.name = "set"
    /\ Cardinality(Keys(graph)) = 3
    /\ Cardinality({id \in Keys(graph) : WellFormed(graph[id])}) = 2
    /\ \A order \in KeyOrders(graph) : ~to_graph(graph, order).ok

-----------------------------------------------------------------------------
(* Properties of the children writers (SpecChildren, SpecReplicas) *)

AllStrings(items) == \A k \in 1..Len(items) : items[k].tag = "String"
ItemStrings(items) == [k \in 1..Len(items) |-> items[k].v]

\* C3: whatever the children field held, set_children(target) returns
\* without a panic (every remove_range and insert_range falls inside the
\* sequence when it is applied) and get_children then returns target.
C3_SetChildrenYieldsTarget ==
    last.name = "set_children" =>
        /\ last.ret.ok
        /\ get_children(graph[last.id].v) = Ok(last.arg)

\* A script of three calls or more on a sequence of strings
C3_Witness ==
    /\ last.name = "set_children"
    /\ last.before.children = "YArray"
    /\ AllStrings(last.old)
    /\ Len(last.calls) >= 3
    /\ get_children(graph[last.id].v) = Ok(last.arg)

\* The fallback on a sequence holding an element that is no string
C3_WitnessFallback ==
    /\ last.name = "set_children"
    /\ last.before.children = "YArray"
    /\ ~AllStrings(last.old)
    /\ last.arg # <<>>
    /\ get_children(graph[last.id].v) = Ok(last.arg)

\* The position in the target of the old element at position p (1-based)
\* when the script keeps it (an Equal span covers it, or no script is
\* computed because old equals target), 0 when the script does not
KeptAs(script, old, new, p) ==
    IF old = new THEN p
    ELSE LET hit == {k \in 1..Len(script) :
                        /\ script[k].tag = "Equal"
                        /\ p - 1 >= script[k].old_index
                        /\ p - 1 < script[k].old_index + script[k].old_len}
         IN  IF hit = {} THEN 0
             ELSE LET op == script[CHOOSE k \in hit : TRUE] IN
                  op.new_index + (p - 1 - op.old_index) + 1

\* The old positions whose cell a remove_range of the run has removed
RemovedCells(cells) ==
    {cells[p].src : p \in {q \in 1..Len(cells) :
                              cells[q].src # 0 /\ ~IsVisible(cells[q])}}

\* The cells an insert_range of the run has created
InsertedCells(cells) == {p \in 1..Len(cells) : cells[p].src = 0}

\* C4: on a sequence of strings set_children neither removes nor inserts
\* again an element the edit script keeps: the cells removed are those of
\* the old positions the script does not keep, every kept cell stands at
\* its position in the target, and only the target's other positions are
\* inserted; from [a,b,c] to [b,c,d] the calls are the removal of a and the
\* insertion of d, and when old equals target there is no call.
C4_CommonSubsequenceUntouched ==
    (last.name = "set_children" /\ AllStrings(last.old)) =>
        LET old == ItemStrings(last.old)
            kept == {p \in 1..Len(old) :
                        KeptAs(last.script, old, last.arg, p) # 0}
        IN  /\ RemovedCells(last.items) = (1..Len(old)) \ kept
            /\ \A p \in kept :
                  LET q == KeptAs(last.script, old, last.arg, p) IN
                  /\ Visible(last.items)[q].src = p
                  /\ Visible(last.items)[q].val = AString(old[p])
            /\ Cardinality(InsertedCells(last.items))
                   = Len(last.arg) - Cardinality(kept)
            /\ old = last.arg => last.calls = <<>>
            /\ (old = <<IdA, IdB, IdC>> /\ last.arg = <<IdB, IdC, IdD>>) =>
                  last.calls = <<InsertCall(3, <<IdD>>), RemoveCall(0, 1)>>

\* From [a,b,c] to [b,c,d]: the cells of b and c are the ones that were
\* there
C4_Witness ==
    /\ last.name = "set_children"
    /\ AllStrings(last.old)
    /\ ItemStrings(last.old) = <<IdA, IdB, IdC>>
    /\ last.arg = <<IdB, IdC, IdD>>
    /\ RemovedCells(last.items) = {1}
    /\ Cardinality(InsertedCells(last.items)) = 1

\* C6: push_child(c) returns false and leaves the sequence as it is when c
\* is an element; otherwise it returns true and the sequence is the old one
\* with c appended; a sequence without duplicates stays without.
C6_PushChildAppendsOnce ==
    last.name = "push_child" =>
        LET now == graph[last.id].v["children"].v IN
        /\ IF \E k \in 1..Len(last.old) : last.old[k] = AString(last.arg)
           THEN last.ret = Ok(FALSE) /\ now = last.old
           ELSE last.ret = Ok(TRUE) /\ now = Append(last.old, AString(last.arg))
        /\ NoDup(last.old) => NoDup(now)

C6_Witness ==
    /\ last.name = "push_child"
    /\ last.ret = Ok(FALSE)
    /\ Len(last.old) >= 2
    /\ graph[last.id].v["children"].v = last.old

C6_WitnessAppended ==
    /\ last.name = "push_child"
    /\ last.ret = Ok(TRUE)
    /\ Len(last.old) >= 2

RemoveAt(s, p) == SubSeq(s, 1, p - 1) \o SubSeq(s, p + 1, Len(s))

CreatedBy(cells, who) == SelectSeq(cells, LAMBDA c : c.who = who)
NotCreatedBy(cells, who) == SelectSeq(cells, LAMBDA c : c.who # who)

\* C5: after set_children(target) on one replica and the insertion or the
\* removal of an element the script keeps on the other, both replicas hold
\* the same list: target with the inserted element in it, or target without
\* the removed element.
C5_ConcurrentEditPreserved ==
    last.name = "concurrent" =>
        LET atA == Visible(last.items)
            atB == Visible(last.remote_items)
            old == ItemStrings(last.old)
            target == last.arg.target
            remote == last.arg.remote
        IN  /\ last.ret.ok
            /\ Strings(atA) = Strings(atB)
            /\ get_children(graph[last.id].v) = Ok(Strings(atA))
            /\ remote.call = "insert_range" =>
                  /\ Strings(CreatedBy(atA, "B")) = remote.values
                  /\ Strings(NotCreatedBy(atA, "B")) = target
            /\ remote.call = "remove_range" =>
                  LET q == KeptAs(last.script, old, target, remote.index + 1) IN
                  q # 0 => Strings(atA) = RemoveAt(target, q)

\* The other replica removes an element the script keeps while the script
\* removes and inserts others
C5_Witness ==
    /\ last.name = "concurrent"
    /\ last.arg.remote.call = "remove_range"
    /\ Len(last.calls) >= 2
    /\ KeptAs(last.script, ItemStrings(last.old), last.arg.target,
              last.arg.remote.index + 1) # 0
    /\ Len(Visible(last.items)) = Len(last.arg.target) - 1

\* The other replica inserts where the script inserts
C5_WitnessInsert ==
    /\ last.name = "concurrent"
    /\ last.arg.remote.call = "insert_range"
    /\ \E k \in 1..Len(last.calls) :
          /\ last.calls[k].call = "insert_range"
          /\ last.calls[k].index = last.arg.remote.index
    /\ Len(Visible(last.items)) = Len(last.arg.target) + 1

====
